---------------------------- MODULE Spec2Model ----------------------------
(***************************************************************************)
(* A model of src/src/main.rs: the forward-star Graph, new_world, the      *)
(* simulation step, save_world / load_world and the main loop's mode       *)
(* machine.  Indices are 0-based as in the source; a Vec is a TLA+         *)
(* sequence, so element i of the source is element i+1 here.               *)
(***************************************************************************)
EXTENDS Integers, Sequences, FiniteSets, TLC

VARIABLES
    game_state,      \* main: game_state (GameState)
    graph,           \* main: graph (the world grid), a Graph
    graph_settings,  \* main: graph_settings (the rule-editing grid), a Graph
    rules,           \* main: settings.rules, [[u16;9];2]
    cursor,          \* main: which Cursor `cursor` refers to: "world" | "config"
    cursor_world,    \* main: cursor_world.node
    cursor_config,   \* main: cursor_config.node
    timer,           \* the hardware counter timer2 (timer.value())
    sram,            \* the save media, bytes from offset 0
    keys,            \* the mode buttons (B, START) input.update() found just pressed
    last,            \* what ran last; in main "step" after Update State, else "loop"
    ret,             \* the Result of the last load_world / save_world call
    fault,           \* the storage operation that failed in that call, or NoFault
    presses,         \* iterations so far that found Button::A or a direction pressed
    snap,            \* what the last save_world call was given, <<>> before any
                     \* (under SpecMove: the moves made, start node first)
    bw, bh, bpc,     \* new_world: width, height, and the calls made so far
    pad,             \* the directional buttons and Button::A a recorded press read
    edge_calls       \* the add_edge calls made on `graph` so far, oldest first

vars == << game_state, graph, graph_settings, rules, cursor, cursor_world,
           cursor_config, timer, sram, keys, last, ret, fault, presses, snap,
           bw, bh, bpc, pad, edge_calls >>

-----------------------------------------------------------------------------
(* Bounds of the model *)

\* new_world is built for every width and height in MinDim..MaxDim
MinDim == 2
MaxDim == 4
\* the world grid of the main loop and of the codec (WIDTH x HEIGHT = 30 x 20
\* in the source) is scaled down to WorldW x WorldH
WorldW == 2
WorldH == 2
\* settings.speed (5000 in the source), in timer ticks per frame
Speed == 1
\* iterations of the main loop in which Button::A or a directional button
\* is found pressed (iterations without them are not bounded)
MaxPresses == 2
\* grids drawn as inputs have at most MaxLive Live cells or at most MaxLive Dead
MaxLive == 2
\* graphs built by arbitrary add_node / add_edge calls have at most MaxNodes
\* nodes and MaxEdges edges
MaxNodes == 2
MaxEdges == 3
\* grids a recorded press starts from have at most MaxEdited Live cells or at
\* most MaxEdited Dead
MaxEdited == 1
\* The longest run of cursor moves followed from one start node
MaxMoves == 4

-----------------------------------------------------------------------------
(* Program constants *)

WIDTH == 30
HEIGHT == 20
RULE_COLS == 9
ByteL == 76
ByteD == 68
ByteX == 88
U8 == 256

window_x == WIDTH \div 4
window_y == (HEIGHT \div 4) - 3
rules_offset_x == 3
rules_offset_y == 3

-----------------------------------------------------------------------------
(* Option, CellState, NodeType *)

None == << >>
Some(x) == << x >>

Dead == "Dead"
Live == "Live"

Cell(s) == [kind |-> "Cell", val |-> s]
Menu(m) == [kind |-> "Menu", val |-> m]

\* impl From<u16> for CellState
CellStateFrom(item) ==
    IF item = 0 THEN Dead
    ELSE IF item = 1 THEN Live
    ELSE Dead

\* impl Not for CellState
NotCell(s) == IF s = Dead THEN Live ELSE Dead

\* `s as u16` / `s as usize` for a CellState
AsInt(s) == IF s = Live THEN 1 ELSE 0

-----------------------------------------------------------------------------
(* Graph *)

GraphNew == [nodes |-> << >>, edges |-> << >>]

add_node(g, x, y, state) ==
    [g EXCEPT !.nodes = Append(@, [state |-> state, x |-> x, y |-> y,
                                   first_outgoing_edge |-> None])]

\* An add_edge that does not link the new edge to the node's earlier ones
add_edge_unlinked(g, source, target, direction) ==
    [nodes |-> [g.nodes EXCEPT ![source + 1].first_outgoing_edge =
                                    Some(Len(g.edges))],
     edges |-> Append(g.edges,
                      [direction |-> direction, target |-> target,
                       next_outgoing_edge |-> None])]

\* An add_edge that makes the new edge its own next_outgoing_edge
add_edge_self_linked(g, source, target, direction) ==
    [nodes |-> [g.nodes EXCEPT ![source + 1].first_outgoing_edge =
                                    Some(Len(g.edges))],
     edges |-> Append(g.edges,
                      [direction |-> direction, target |-> target,
                       next_outgoing_edge |-> Some(Len(g.edges))])]

add_edge(g, source, target, direction) ==
    LET edge_index == Len(g.edges)
        node_data  == g.nodes[source + 1]
    IN  [nodes |-> [g.nodes EXCEPT ![source + 1].first_outgoing_edge =
                                        Some(edge_index)],
         edges |-> Append(g.edges,
                          [direction |-> direction, target |-> target,
                           next_outgoing_edge |-> node_data.first_outgoing_edge])]

\* The edges of one adjacency list, from the edge `maybe_edge` on, in list order
RECURSIVE EdgeChain(_, _)
EdgeChain(g, maybe_edge) ==
    IF maybe_edge = None THEN << >>
    ELSE LET edge == g.edges[maybe_edge[1] + 1]
         IN  << edge >> \o EdgeChain(g, edge.next_outgoing_edge)

\* Graph::successors with Successors::next run to the end
successors(g, source) ==
    LET chain == EdgeChain(g, g.nodes[source + 1].first_outgoing_edge)
    IN  [k \in 1..Len(chain) |-> chain[k].target]

\* A count that takes every successor for a Live cell
RECURSIVE SumAll(_, _, _)
SumAll(g, succ, k) ==
    IF k > Len(succ) THEN 0 ELSE 1 + SumAll(g, succ, k + 1)

\* A count to which a Menu successor contributes 1
RECURSIVE SumLiveAndMenu(_, _, _)
SumLiveAndMenu(g, succ, k) ==
    IF k > Len(succ) THEN 0
    ELSE LET st == g.nodes[succ[k] + 1].state
         IN  (IF st.kind = "Cell" THEN AsInt(st.val) ELSE 1)
             + SumLiveAndMenu(g, succ, k + 1)

RECURSIVE SumLive(_, _, _)
SumLive(g, succ, k) ==
    IF k > Len(succ) THEN 0
    ELSE LET st == g.nodes[succ[k] + 1].state
         IN  (IF st.kind = "Cell" THEN AsInt(st.val) ELSE 0)
             + SumLive(g, succ, k + 1)

living_neighbors_count_of(g, source) == SumLive(g, successors(g, source), 1)

-----------------------------------------------------------------------------
(* new_world *)

rem_euclid(a, m) == a % m

\* The eight add_edge calls of one (i, j) iteration of new_world, in order
WorldEdgeCallsWrongDiagonal(width, height, i, j) ==
    LET n_right      == ((i + 1) % width) + j * width
        n_down       == (((j + 1) % height) * width) + i
        n_down_right == (((j + 1) % height) * width) + ((i + 1) % width)
        n_down_left  == (((j + 1) % height) * width) + ((i + 1) % width)
        n            == j * width + i
    IN  << << n, n_right, Some("RIGHT") >>, << n_right, n, Some("LEFT") >>,
           << n, n_down, Some("DOWN") >>,   << n_down, n, Some("UP") >>,
           << n, n_down_right, None >>,     << n_down_right, n, None >>,
           << n, n_down_left, None >>,      << n_down_left, n, None >> >>

\* A WorldEdgeCalls whose reverse edges (to n from n_right and from n_down)
\* carry no button
WorldEdgeCallsUntaggedReverse(width, height, i, j) ==
    LET n_right      == ((i + 1) % width) + j * width
        n_down       == (((j + 1) % height) * width) + i
        n_down_right == (((j + 1) % height) * width) + ((i + 1) % width)
        n_down_left  == (((j + 1) % height) * width) + rem_euclid(i - 1, width)
        n            == j * width + i
    IN  << << n, n_right, Some("RIGHT") >>, << n_right, n, None >>,
           << n, n_down, Some("DOWN") >>,   << n_down, n, None >>,
           << n, n_down_right, None >>,     << n_down_right, n, None >>,
           << n, n_down_left, None >>,      << n_down_left, n, None >> >>

WorldEdgeCalls(width, height, i, j) ==
    LET n_right      == ((i + 1) % width) + j * width
        n_down       == (((j + 1) % height) * width) + i
        n_down_right == (((j + 1) % height) * width) + ((i + 1) % width)
        n_down_left  == (((j + 1) % height) * width) + rem_euclid(i - 1, width)
        n            == j * width + i
    IN  << << n, n_right, Some("RIGHT") >>, << n_right, n, Some("LEFT") >>,
           << n, n_down, Some("DOWN") >>,   << n_down, n, Some("UP") >>,
           << n, n_down_right, None >>,     << n_down_right, n, None >>,
           << n, n_down_left, None >>,      << n_down_left, n, None >> >>

\* Call number c (from 0) of new_world: first the add_node calls for
\* i in 0..width*height, then the add_edge calls for i in 0..width, j in 0..height
WorldCallCount(width, height) == width * height + 8 * width * height

WorldStep(g, width, height, c) ==
    IF c < width * height
    THEN add_node(g, c % width, c \div width, Cell(Dead))
    ELSE LET e    == c - width * height
             i    == e \div (8 * height)
             j    == (e \div 8) % height
             call == WorldEdgeCalls(width, height, i, j)[(e % 8) + 1]
         IN  add_edge(g, call[1], call[2], call[3])

\* The graph after calls lo .. hi-1 of new_world have been made on g
RECURSIVE WorldFrom(_, _, _, _, _)
WorldFrom(g, width, height, lo, hi) ==
    IF hi <= lo THEN g
    ELSE IF hi = lo + 1 THEN WorldStep(g, width, height, lo)
    ELSE LET mid  == (lo + hi) \div 2
             left == WorldFrom(g, width, height, lo, mid)
         IN  \* the test makes TLC evaluate `left` before the second half
             IF Len(left.nodes) >= 0
             THEN WorldFrom(left, width, height, mid, hi)
             ELSE left

new_world(width, height) ==
    WorldFrom(GraphNew, width, height, 0, WorldCallCount(width, height))

-----------------------------------------------------------------------------
(* Settings: the rule table, and the rule-editing graph built in main *)

ConwayRules == << << 0, 0, 0, 1, 0, 0, 0, 0, 0 >>,
                 << 0, 0, 1, 1, 0, 0, 0, 0, 0 >> >>

\* settings.rules[r][c]
Rule(rl, r, c) == rl[r + 1][c + 1]

\* The graph after add_edge has been called on g for calls[lo .. hi-1], in order
RECURSIVE AddEdges(_, _, _, _)
AddEdges(g, calls, lo, hi) ==
    IF hi <= lo THEN g
    ELSE IF hi = lo + 1
    THEN add_edge(g, calls[lo][1], calls[lo][2], calls[lo][3])
    ELSE LET mid  == (lo + hi) \div 2
             left == AddEdges(g, calls, lo, mid)
         IN  \* the test makes TLC evaluate `left` before the second half
             IF Len(left.nodes) >= 0
             THEN AddEdges(left, calls, mid, hi)
             ELSE left

\* The add_edge calls of one (j, i) iteration of the rule-grid loop
SettingsEdgeCalls(j, i) ==
    (IF i < 8 THEN << << j * 9 + i, j * 9 + i + 1, Some("RIGHT") >>,
                      << j * 9 + i + 1, j * 9 + i, Some("LEFT") >> >>
              ELSE << >>)
    \o
    (IF j < 1 THEN << << j * 9 + i, (j + 1) * 9 + i, Some("DOWN") >>,
                      << (j + 1) * 9 + i, j * 9 + i, Some("UP") >> >>
              ELSE << >>)

RECURSIVE SettingsRuleEdges(_)
SettingsRuleEdges(c) ==
    IF c = 2 * RULE_COLS THEN << >>
    ELSE SettingsEdgeCalls(c \div RULE_COLS, c % RULE_COLS) \o SettingsRuleEdges(c + 1)

node_new == 18
node_save == 19
node_load == 20

SettingsMenuEdges ==
    << << node_new, 9, Some("UP") >>,
       << node_new, node_save, Some("DOWN") >>,
       << node_save, node_new, Some("UP") >>,
       << node_save, node_load, Some("DOWN") >>,
       << node_load, node_save, Some("UP") >> >>
    \o [k \in 1..9 |-> << 8 + k, node_new, Some("DOWN") >>]

RECURSIVE SettingsRuleNodes(_, _, _)
SettingsRuleNodes(g, rl, c) ==
    IF c = 2 * RULE_COLS THEN g
    ELSE LET j == c \div RULE_COLS
             i == c % RULE_COLS
         IN  SettingsRuleNodes(
                 add_node(g, window_x + rules_offset_x + i,
                             window_y + rules_offset_y + j,
                             Cell(CellStateFrom(Rule(rl, j, i)))),
                 rl, c + 1)

new_graph_settings(rl) ==
    LET g1 == AddEdges(SettingsRuleNodes(GraphNew, rl, 0), SettingsRuleEdges(0),
                       1, Len(SettingsRuleEdges(0)) + 1)
        g2 == add_node(g1, window_x + rules_offset_x,
                           window_y + rules_offset_y + 3, Menu("New"))
        g3 == add_node(g2, window_x + rules_offset_x,
                           window_y + rules_offset_y + 4, Menu("Save"))
        g4 == add_node(g3, window_x + rules_offset_x,
                           window_y + rules_offset_y + 5, Menu("Load"))
    IN  AddEdges(g4, SettingsMenuEdges, 1, Len(SettingsMenuEdges) + 1)

-----------------------------------------------------------------------------
(* Cursor *)

\* Cursor::move_cursor: the node the cursor is on after the call
RECURSIVE MoveFrom(_, _, _, _)
MoveFrom(g, node, maybe_edge, button) ==
    IF maybe_edge = None THEN node
    ELSE LET edge == g.edges[maybe_edge[1] + 1]
         IN  IF edge.direction = Some(button) THEN edge.target
             ELSE MoveFrom(g, node, edge.next_outgoing_edge, button)

\* A move_cursor that follows the first edge whatever its tag
move_cursor_any_edge(g, node, button) ==
    LET maybe_edge == g.nodes[node + 1].first_outgoing_edge
    IN  IF maybe_edge = None THEN node ELSE g.edges[maybe_edge[1] + 1].target

move_cursor(g, node, button) ==
    MoveFrom(g, node, g.nodes[node + 1].first_outgoing_edge, button)

\* input.just_pressed_x_tri() / just_pressed_y_tri()
Tri == {"Negative", "Zero", "Positive"}

\* No directional button and no Button::A read as just pressed
NoPad == << "Zero", "Zero", FALSE >>

\* Whether the iteration finds a directional button or Button::A just pressed
Pressed(x, y, a) == x # "Zero" \/ y # "Zero" \/ a

MoveX(g, node, x) ==
    IF x = "Negative" THEN move_cursor(g, node, "LEFT")
    ELSE IF x = "Positive" THEN move_cursor(g, node, "RIGHT")
    ELSE node

MoveY(g, node, y) ==
    IF y = "Negative" THEN move_cursor(g, node, "UP")
    ELSE IF y = "Positive" THEN move_cursor(g, node, "DOWN")
    ELSE node

-----------------------------------------------------------------------------
(* The simulation step (GameState::Running, "Update State") *)

SetState(g, i, st) == [g EXCEPT !.nodes[i + 1].state = st]

\* let mut neighbors = ...; for i in 0..graph.nodes.len() { neighbors[i] = ... }
NeighborCounts(g) ==
    [k \in 1..Len(g.nodes) |-> living_neighbors_count_of(g, k - 1)]

\* The state node i gets from the rule table, given its neighbour count
NextState(g, rl, i, count) ==
    LET st == g.nodes[i + 1].state
    IN  IF st.kind = "Cell"
        THEN Cell(CellStateFrom(Rule(rl, AsInt(st.val), count)))
        ELSE st

\* for i in 0..graph.nodes.len() { n.state = Cell(rules[s][neighbors[i]].into()) }
RECURSIVE ApplyRules(_, _, _, _)
ApplyRules(g, rl, neighbors, i) ==
    IF i = Len(g.nodes) THEN g
    ELSE ApplyRules(SetState(g, i, NextState(g, rl, i, neighbors[i + 1])),
                    rl, neighbors, i + 1)

\* A step that counts the neighbours of node i when it reaches node i
RECURSIVE ApplyRulesInPlace(_, _, _)
ApplyRulesInPlace(g, rl, i) ==
    IF i = Len(g.nodes) THEN g
    ELSE ApplyRulesInPlace(
             SetState(g, i, NextState(g, rl, i, living_neighbors_count_of(g, i))),
             rl, i + 1)

update_state_in_place(g, rl) == ApplyRulesInPlace(g, rl, 0)

update_state(g, rl) == ApplyRules(g, rl, NeighborCounts(g), 0)

-----------------------------------------------------------------------------
(* Persistence: load_world and save_world over the save media *)

\* access.read(off, ..) of one byte
SramByte(sr, off) == sr[off + 1]

\* The storage operations of a call are numbered from 0: 0 is save.access(),
\* 1 is the read of offset 0, and 2 + m is the read (load) or the
\* prepare_write + write (save) of item m, the items being the cells
\* 0..n-1, then rule row 0, then rule row 1.  A call is given the operation
\* that fails, None or Some(k); every operation before it succeeds.
StorageOps(sr, g) ==
    IF SramByte(sr, 0) = 0 THEN 2 ELSE 2 + Len(g.nodes) + 2 * RULE_COLS

Faults(sr, g) == {None} \cup {Some(k) : k \in 0..(StorageOps(sr, g) - 1)}

\* Items handled before the call returns
ItemsDone(g, f) ==
    IF f = None THEN Len(g.nodes) + 2 * RULE_COLS ELSE f[1] - 2

\* match b { b'L' => Cell(Live), _ => Cell(Dead) }
CellOfByte(b) == IF b = ByteL THEN Cell(Live) ELSE Cell(Dead)

\* match state { Cell(Live) => b'L', Cell(Dead) => b'D', _ => b'X' }
ByteOfState(st) ==
    IF st = Cell(Live) THEN ByteL
    ELSE IF st = Cell(Dead) THEN ByteD
    ELSE ByteX

\* `settings.rules[r][c] as u8`
AsU8(v) == v % U8

\* A load_world that decodes the media without testing the byte at offset 0
load_world_ignoring_flag(sr, g, rl, f) ==
    LET n    == Len(g.nodes)
        done == IF f = None THEN n + 2 * RULE_COLS ELSE f[1] - 2
    IN  IF f = Some(0) \/ f = Some(1)
        THEN [ret |-> "Err", graph |-> g, rules |-> rl]
        ELSE [ret   |-> IF f = None THEN "Ok" ELSE "Err",
              graph |-> [g EXCEPT !.nodes =
                            [k \in 1..n |->
                                IF k - 1 < done
                                THEN [g.nodes[k] EXCEPT
                                         !.state = CellOfByte(SramByte(sr, k - 1))]
                                ELSE g.nodes[k]]],
              rules |-> << [c \in 1..RULE_COLS |->
                               IF n + (c - 1) < done
                               THEN SramByte(sr, n + (c - 1))
                               ELSE rl[1][c]],
                           [c \in 1..RULE_COLS |->
                               IF n + RULE_COLS + (c - 1) < done
                               THEN SramByte(sr, n + RULE_COLS + (c - 1))
                               ELSE rl[2][c]] >>]

\* load_world: [ret, graph, rules] after the call
load_world(sr, g, rl, f) ==
    LET n       == Len(g.nodes)
        is_save == SramByte(sr, 0)
        done    == ItemsDone(g, f)
    IN  IF f = Some(0) \/ f = Some(1)
        THEN [ret |-> "Err", graph |-> g, rules |-> rl]
        ELSE IF is_save = 0
        THEN [ret |-> "Ok", graph |-> g, rules |-> rl]
        ELSE [ret   |-> IF f = None THEN "Ok" ELSE "Err",
              graph |-> [g EXCEPT !.nodes =
                            [k \in 1..n |->
                                IF k - 1 < done
                                THEN [g.nodes[k] EXCEPT
                                         !.state = CellOfByte(SramByte(sr, k - 1))]
                                ELSE g.nodes[k]]],
              rules |-> << [c \in 1..RULE_COLS |->
                               IF n + (c - 1) < done
                               THEN SramByte(sr, n + (c - 1))
                               ELSE rl[1][c]],
                           [c \in 1..RULE_COLS |->
                               IF n + RULE_COLS + (c - 1) < done
                               THEN SramByte(sr, n + RULE_COLS + (c - 1))
                               ELSE rl[2][c]] >>]

\* The byte save_world writes for item m
SavedByte(g, rl, m) ==
    LET n == Len(g.nodes)
    IN  IF m < n THEN ByteOfState(g.nodes[m + 1].state)
        ELSE IF m < n + RULE_COLS THEN AsU8(Rule(rl, 0, m - n))
        ELSE AsU8(Rule(rl, 1, m - n - RULE_COLS))

\* A save_world that writes whatever the byte at offset 0 is
save_world_unconditional(sr, g, rl, f) ==
    LET n    == Len(g.nodes)
        done == IF f = None THEN n + 2 * RULE_COLS ELSE f[1] - 2
    IN  IF f = Some(0) \/ f = Some(1)
        THEN [ret |-> "Err", sram |-> sr]
        ELSE [ret  |-> IF f = None THEN "Ok" ELSE "Err",
              sram |-> [k \in 1..Len(sr) |->
                           IF k - 1 < done /\ k - 1 < n + 2 * RULE_COLS
                           THEN SavedByte(g, rl, k - 1)
                           ELSE sr[k]]]

\* save_world: [ret, sram] after the call
save_world(sr, g, rl, f) ==
    LET n       == Len(g.nodes)
        is_save == SramByte(sr, 0)
        done    == ItemsDone(g, f)
    IN  IF f = Some(0) \/ f = Some(1)
        THEN [ret |-> "Err", sram |-> sr]
        ELSE IF is_save = 0
        THEN [ret |-> "Ok", sram |-> sr]
        ELSE [ret  |-> IF f = None THEN "Ok" ELSE "Err",
              sram |-> [k \in 1..Len(sr) |->
                           IF k - 1 < done /\ k - 1 < n + 2 * RULE_COLS
                           THEN SavedByte(g, rl, k - 1)
                           ELSE sr[k]]]

-----------------------------------------------------------------------------
(* Inputs the specifications draw from *)

\* The subsets of S with at most k elements
RECURSIVE UpTo(_, _)
UpTo(S, k) ==
    IF k = 0 THEN {{}}
    ELSE LET smaller == UpTo(S, k - 1)
         IN  smaller \cup {T \cup {x} : T \in smaller, x \in S}

\* The sets of Live cells of the grids drawn for a grid of n cells
LiveSets(n) ==
    LET few == UpTo(0..(n - 1), MaxLive)
    IN  few \cup {(0..(n - 1)) \ T : T \in few}

\* Graph g with exactly the cells of `live` Live
WithCells(g, live) ==
    [g EXCEPT !.nodes = [k \in 1..Len(g.nodes) |->
        [g.nodes[k] EXCEPT
            !.state = Cell(IF (k - 1) \in live THEN Live ELSE Dead)]]]

\* The cell states of a graph, in node order
States(g) == [k \in 1..Len(g.nodes) |-> g.nodes[k].state]

\* Rule tables a run can hold: the initial one, ones edited in the rule grid,
\* and ones read from the save media (any byte value)
SeedsRules   == << << 0, 0, 1, 0, 0, 0, 0, 0, 0 >>,
                  << 0, 0, 0, 0, 0, 0, 0, 0, 0 >> >>
ForeignRules == << << 2, 0, 1, 1, 0, 0, 0, 0, 255 >>,
                  << 1, 1, 2, 1, 0, 0, 0, 0, 1 >> >>
RuleTables == {ConwayRules, SeedsRules, ForeignRules}

\* What the save media can hold when the program starts, for a grid of n cells.
\* The model keeps offsets 0 .. n + 18 of the media.
SramLen(n) == n + 2 * RULE_COLS + 1
BlankSram(n)  == [k \in 1..SramLen(n) |-> 0]
ErasedSram(n) == [k \in 1..SramLen(n) |-> 255]
WrittenSram(n) ==
    [k \in 1..SramLen(n) |->
        IF k - 1 < n THEN (IF (k - 1) % 2 = 0 THEN ByteL ELSE ByteD)
        ELSE IF k - 1 < n + RULE_COLS THEN ForeignRules[1][k - n]
        ELSE IF k - 1 < n + 2 * RULE_COLS THEN ForeignRules[2][k - n - RULE_COLS]
        ELSE 0]
InitialSram(n) == {BlankSram(n), ErasedSram(n), WrittenSram(n)}

-----------------------------------------------------------------------------
(* SpecBuild: new_world, one add_node / add_edge call at a time *)

BuildInit ==
    /\ bw \in MinDim..MaxDim
    /\ bh \in MinDim..MaxDim
    /\ bpc = 0
    /\ graph = GraphNew
    /\ game_state = "Off"
    /\ graph_settings = GraphNew
    /\ rules = ConwayRules
    /\ cursor = "world"
    /\ cursor_world = 0
    /\ cursor_config = 0
    /\ timer = 0
    /\ sram = << >>
    /\ keys = {}
    /\ last = "build"
    /\ ret = "none"
    /\ fault = None
    /\ presses = 0
    /\ snap = << >>
    /\ pad = NoPad
    /\ edge_calls = << >>

BuildAddNode ==
    /\ last = "build"
    /\ bpc < bw * bh
    /\ graph' = WorldStep(graph, bw, bh, bpc)
    /\ bpc' = bpc + 1
    /\ UNCHANGED << game_state, graph_settings, rules, cursor, cursor_world,
                    cursor_config, timer, sram, keys, last, ret, fault,
                    presses, snap, bw, bh,
                    pad, edge_calls >>

BuildAddEdge ==
    /\ last = "build"
    /\ bpc >= bw * bh
    /\ bpc < WorldCallCount(bw, bh)
    /\ graph' = WorldStep(graph, bw, bh, bpc)
    /\ bpc' = bpc + 1
    /\ UNCHANGED << game_state, graph_settings, rules, cursor, cursor_world,
                    cursor_config, timer, sram, keys, last, ret, fault,
                    presses, snap, bw, bh,
                    pad, edge_calls >>

BuildNext == BuildAddNode \/ BuildAddEdge

SpecBuild == BuildInit /\ [][BuildNext]_vars

BuildDone == last = "build" /\ bpc = WorldCallCount(bw, bh)

-----------------------------------------------------------------------------
(* SpecGraph: any sequence of add_node and add_edge calls on a new Graph.  *)
(* As at every call site of the program (new_world and the rule-editing    *)
(* graph in main), an edge is added between nodes that exist.              *)

GraphInit ==
    /\ graph = GraphNew
    /\ edge_calls = << >>
    /\ last = "graph"
    /\ game_state = "Off"
    /\ graph_settings = GraphNew
    /\ rules = ConwayRules
    /\ cursor = "world"
    /\ cursor_world = 0
    /\ cursor_config = 0
    /\ timer = 0
    /\ sram = << >>
    /\ keys = {}
    /\ ret = "none"
    /\ fault = None
    /\ presses = 0
    /\ snap = << >>
    /\ pad = NoPad
    /\ bw = 0
    /\ bh = 0
    /\ bpc = 0

GraphAddNode ==
    /\ last = "graph"
    /\ Len(graph.nodes) < MaxNodes
    /\ graph' = add_node(graph, Len(graph.nodes), 0, Cell(Dead))
    /\ UNCHANGED << game_state, graph_settings, rules, cursor, cursor_world,
                    cursor_config, timer, sram, keys, last, ret, fault,
                    presses, snap, bw, bh, bpc, pad, edge_calls >>

GraphAddEdge ==
    /\ last = "graph"
    /\ Len(graph.edges) < MaxEdges
    /\ \E source \in 0..(Len(graph.nodes) - 1),
          target \in 0..(Len(graph.nodes) - 1),
          direction \in {None, Some("RIGHT")} :
           /\ graph' = add_edge(graph, source, target, direction)
           /\ edge_calls' = Append(edge_calls, << source, target, direction >>)
    /\ UNCHANGED << game_state, graph_settings, rules, cursor, cursor_world,
                    cursor_config, timer, sram, keys, last, ret, fault,
                    presses, snap, bw, bh, bpc, pad >>

GraphNext == GraphAddNode \/ GraphAddEdge

SpecGraph == GraphInit /\ [][GraphNext]_vars

-----------------------------------------------------------------------------
(* SpecStep: one simulation step on a drawn grid and rule table *)

StepInit ==
    /\ bw \in MinDim..MaxDim
    /\ bh \in MinDim..MaxDim
    /\ bpc = WorldCallCount(bw, bh)
    /\ graph = new_world(bw, bh)
    /\ last = "step_built"
    /\ game_state = "Running"
    /\ rules \in RuleTables
    /\ graph_settings = new_graph_settings(rules)
    /\ cursor = "world"
    /\ cursor_world = 0
    /\ cursor_config = 0
    /\ timer = 0
    /\ sram = << >>
    /\ keys = {}
    /\ ret = "none"
    /\ fault = None
    /\ presses = 0
    /\ snap = << >>
    /\ pad = NoPad
    /\ edge_calls = << >>

\* The grid is given its cell states
StepSeed ==
    /\ last = "step_built"
    /\ \E live \in LiveSets(Len(graph.nodes)) : graph' = WithCells(graph, live)
    /\ last' = "step_init"
    /\ UNCHANGED << game_state, graph_settings, rules, cursor, cursor_world,
                    cursor_config, timer, sram, keys, ret, fault, presses,
                    snap, bw, bh, bpc,
                    pad, edge_calls >>

StepRun ==
    /\ last = "step_init"
    /\ graph' = update_state(graph, rules)
    /\ last' = "stepped"
    /\ UNCHANGED << game_state, graph_settings, rules, cursor, cursor_world,
                    cursor_config, timer, sram, keys, ret, fault, presses,
                    snap, bw, bh, bpc,
                    pad, edge_calls >>

StepNext == StepSeed \/ StepRun

SpecStep == StepInit /\ [][StepNext]_vars

-----------------------------------------------------------------------------
(* SpecCodec: save_world and load_world called on drawn grids, rule tables *)
(* and media.  As in main, nothing is called after a call returned Err.    *)

\* The grids and rule tables a load is made into after a save
SecondLive(n) == {{}, 0..(n - 1)}
SecondRules == {ConwayRules, ForeignRules}

CodecInit ==
    /\ \E live \in LiveSets(WorldW * WorldH) :
           graph = WithCells(new_world(WorldW, WorldH), live)
    /\ rules \in RuleTables
    /\ sram \in InitialSram(WorldW * WorldH)
    /\ last = "codec_init"
    /\ ret = "none"
    /\ fault = None
    /\ snap = << >>
    /\ pad = NoPad
    /\ edge_calls = << >>
    /\ game_state = "Config"
    /\ graph_settings = GraphNew
    /\ cursor = "config"
    /\ cursor_world = 0
    /\ cursor_config = 0
    /\ timer = 0
    /\ keys = {}
    /\ presses = 0
    /\ bw = WorldW
    /\ bh = WorldH
    /\ bpc = WorldCallCount(WorldW, WorldH)

CodecSave ==
    /\ last = "codec_init"
    /\ \E f \in Faults(sram, graph) :
           LET r == save_world(sram, graph, rules, f)
           IN  /\ sram' = r.sram
               /\ ret' = r.ret
               /\ fault' = f
    /\ snap' = << [states |-> States(graph), rules |-> rules, sram |-> sram] >>
    /\ last' = "saved"
    /\ UNCHANGED << game_state, graph, graph_settings, rules, cursor,
                    cursor_world, cursor_config, timer, keys, presses,
                    bw, bh, bpc,
                    pad, edge_calls >>

\* The caller goes on with another grid and rule table
CodecSecond ==
    /\ last = "saved"
    /\ ret = "Ok"
    /\ \E live \in SecondLive(Len(graph.nodes)) : graph' = WithCells(graph, live)
    /\ rules' \in SecondRules
    /\ last' = "second"
    /\ UNCHANGED << game_state, graph_settings, cursor, cursor_world,
                    cursor_config, timer, sram, keys, ret, fault, presses,
                    snap, bw, bh, bpc,
                    pad, edge_calls >>

CodecLoad ==
    /\ last \in {"codec_init", "saved", "second"}
    /\ ret # "Err"
    /\ \E f \in Faults(sram, graph) :
           LET r == load_world(sram, graph, rules, f)
           IN  /\ graph' = r.graph
               /\ rules' = r.rules
               /\ ret' = r.ret
               /\ fault' = f
    /\ last' = "loaded"
    /\ UNCHANGED << game_state, graph_settings, cursor, cursor_world,
                    cursor_config, timer, sram, keys, presses, snap,
                    bw, bh, bpc,
                    pad, edge_calls >>

CodecNext == CodecSave \/ CodecSecond \/ CodecLoad

SpecCodec == CodecInit /\ [][CodecNext]_vars

-----------------------------------------------------------------------------
(* Spec: the loop of main.  One action is one iteration of `loop`, from    *)
(* input.update() to the `continue` or to the end of the body.  The timer  *)
(* advances by one tick in every vblank.wait_for_vblank().                 *)

\* The counter wraps (at 2^16 in the hardware); the model scales it with Speed
TimerWrap == Speed + 2
Tick(t) == (t + 1) % TimerWrap

\* timer.set_enabled(false); timer.set_enabled(true);
TimerRestart == 0

\* The node the Cursor `cursor` refers to is on
ActiveNode == IF cursor = "world" THEN cursor_world ELSE cursor_config

\* for n in &mut graph_settings.nodes { ... n.state = Cell((*r).into()) ... }
SyncSettings(gs, rl) ==
    [gs EXCEPT !.nodes = [k \in 1..Len(gs.nodes) |->
        IF gs.nodes[k].state.kind = "Cell"
        THEN [gs.nodes[k] EXCEPT !.state =
                 Cell(CellStateFrom(Rule(rl,
                     gs.nodes[k].y - window_y - rules_offset_y,
                     gs.nodes[k].x - window_x - rules_offset_x)))]
        ELSE gs.nodes[k]]]

\* New: for cell in &mut graph.nodes { cell.state = Cell(Dead); ...rules... }
ClearWorld(g) ==
    [g EXCEPT !.nodes = [k \in 1..Len(g.nodes) |->
        [g.nodes[k] EXCEPT !.state = Cell(Dead)]]]

\* A New that leaves the rule table as it is
KeepRules(g, rl) == rl

ClearRules(g, rl) == IF Len(g.nodes) > 0 THEN ConwayRules ELSE rl

\* *r = !(*r != 0) as u16
ToggleRule(rl, r, c) ==
    [rl EXCEPT ![r + 1][c + 1] = IF @ # 0 THEN 0 ELSE 1]

\* A Button::A handler that makes the cell Live whatever it was
ToggleNodeSetsLive(g, node) ==
    LET st == g.nodes[node + 1].state
    IN  IF st.kind = "Cell" THEN SetState(g, node, Cell(Live)) ELSE g

\* Button::A in GameState::Paused: n.state = Cell(!*s)
ToggleNode(g, node) ==
    LET st == g.nodes[node + 1].state
    IN  IF st.kind = "Cell" THEN SetState(g, node, Cell(NotCell(st.val))) ELSE g

Init ==
    /\ game_state = "Paused"
    /\ graph = new_world(WorldW, WorldH)
    /\ rules = ConwayRules
    /\ graph_settings = new_graph_settings(ConwayRules)
    /\ cursor = "world"
    /\ cursor_world = 0
    /\ cursor_config = 16
    /\ timer = TimerRestart
    /\ sram \in {BlankSram(WorldW * WorldH), WrittenSram(WorldW * WorldH)}
    /\ keys = {}
    /\ last = "loop"
    /\ ret = "none"
    /\ fault = None
    /\ presses = 0
    /\ snap = << >>
    /\ pad = NoPad
    /\ edge_calls = << >>
    /\ bw = WorldW
    /\ bh = WorldH
    /\ bpc = WorldCallCount(WorldW, WorldH)

\* A PausedStart without its `continue`: with START also pressed the
\* iteration goes on into the START branch
PausedStartFallsThrough ==
    /\ last # "panic"
    /\ game_state = "Paused"
    /\ keys' \in {{"B"}, {"B", "START"}}
    /\ game_state' = IF "START" \in keys' THEN "Config" ELSE "Running"
    /\ cursor' = IF "START" \in keys' THEN "config" ELSE cursor
    /\ cursor_config' = IF "START" \in keys' THEN node_new ELSE cursor_config
    /\ timer' = TimerRestart
    /\ last' = "loop"
    /\ UNCHANGED << graph, graph_settings, rules, cursor_world, sram, ret,
                    fault, presses, snap, bw, bh, bpc,
                    pad, edge_calls >>

\* Paused, Button::B just pressed
PausedStart ==
    /\ last # "panic"
    /\ game_state = "Paused"
    /\ keys' \in {{"B"}, {"B", "START"}}
    /\ game_state' = "Running"
    /\ timer' = TimerRestart
    /\ last' = "loop"
    /\ UNCHANGED << graph, graph_settings, rules, cursor, cursor_world,
                    cursor_config, sram, ret, fault, presses, snap, bw, bh, bpc,
                    pad, edge_calls >>

\* A PausedOpenConfig that leaves `cursor` on cursor_world
PausedOpenConfigKeepsCursor ==
    /\ last # "panic"
    /\ game_state = "Paused"
    /\ keys' = {"START"}
    /\ game_state' = "Config"
    /\ cursor_config' = node_new
    /\ last' = "loop"
    /\ UNCHANGED << graph, graph_settings, rules, cursor, cursor_world, timer,
                    sram, ret, fault, presses, snap, bw, bh, bpc,
                    pad, edge_calls >>

\* Paused, Button::START just pressed and Button::B not
PausedOpenConfig ==
    /\ last # "panic"
    /\ game_state = "Paused"
    /\ keys' = {"START"}
    /\ game_state' = "Config"
    /\ cursor' = "config"
    /\ cursor_config' = node_new
    /\ last' = "loop"
    /\ UNCHANGED << graph, graph_settings, rules, cursor_world, timer, sram,
                    ret, fault, presses, snap, bw, bh, bpc,
                    pad, edge_calls >>

\* Paused, neither B nor START: the iteration reads the directional buttons
\* as x, y and Button::A as a
PausedInput(x, y, a) ==
    /\ last # "panic"
    /\ game_state = "Paused"
    /\ keys' = {}
    /\ LET node == MoveY(graph, MoveX(graph, ActiveNode, x), y)
       IN  /\ Pressed(x, y, a) => presses < MaxPresses
           /\ cursor_world' = IF cursor = "world" THEN node ELSE cursor_world
           /\ cursor_config' = IF cursor = "world" THEN cursor_config ELSE node
           /\ graph' = IF a THEN ToggleNode(graph, node) ELSE graph
           /\ presses' = IF Pressed(x, y, a) THEN presses + 1 ELSE presses
    /\ last' = "loop"
    /\ timer' = Tick(timer)
    /\ UNCHANGED << game_state, graph_settings, rules, cursor, sram, ret,
                    fault, snap, bw, bh, bpc, edge_calls >>

\* Paused, neither: the directional buttons and Button::A
PausedEdit ==
    \E x \in Tri, y \in Tri, a \in BOOLEAN : PausedInput(x, y, a) /\ UNCHANGED pad

\* Running, Button::B just pressed
RunningStop ==
    /\ last # "panic"
    /\ game_state = "Running"
    /\ keys' \in {{"B"}, {"B", "START"}}
    /\ game_state' = "Paused"
    /\ last' = "loop"
    /\ UNCHANGED << graph, graph_settings, rules, cursor, cursor_world,
                    cursor_config, timer, sram, ret, fault, presses, snap,
                    bw, bh, bpc,
                    pad, edge_calls >>

\* A RunningWait that handles Button::A as GameState::Paused does
RunningWaitEdits ==
    /\ last # "panic"
    /\ game_state = "Running"
    /\ keys' \in {{}, {"START"}}
    /\ timer < Speed
    /\ timer' = Tick(timer)
    /\ \E a \in BOOLEAN :
           graph' = IF a THEN ToggleNode(graph, ActiveNode) ELSE graph
    /\ last' = "loop"
    /\ UNCHANGED << game_state, graph_settings, rules, cursor, cursor_world,
                    cursor_config, sram, ret, fault, presses, snap, bw, bh, bpc,
                    pad, edge_calls >>

\* A RunningWait during which the timer does not advance
RunningWaitFrozen ==
    /\ last # "panic"
    /\ game_state = "Running"
    /\ keys' \in {{}, {"START"}}
    /\ timer < Speed
    /\ timer' = timer
    /\ last' = "loop"
    /\ UNCHANGED << game_state, graph, graph_settings, rules, cursor,
                    cursor_world, cursor_config, sram, ret, fault, presses,
                    snap, bw, bh, bpc, pad, edge_calls >>

\* Running, timer.value() < settings.speed
RunningWait ==
    /\ last # "panic"
    /\ game_state = "Running"
    /\ keys' \in {{}, {"START"}}
    /\ timer < Speed
    /\ timer' = Tick(timer)
    /\ last' = "loop"
    /\ UNCHANGED << game_state, graph, graph_settings, rules, cursor,
                    cursor_world, cursor_config, sram, ret, fault, presses,
                    snap, bw, bh, bpc,
                    pad, edge_calls >>

\* A RunningStep that leaves the timer running on instead of restarting it
RunningStepKeepsTimer ==
    /\ last # "panic"
    /\ game_state = "Running"
    /\ keys' \in {{}, {"START"}}
    /\ ~(timer < Speed)
    /\ graph' = update_state(graph, rules)
    /\ timer' = Tick(timer)
    /\ last' = "step"
    /\ UNCHANGED << game_state, graph_settings, rules, cursor, cursor_world,
                    cursor_config, sram, ret, fault, presses, snap, bw, bh, bpc,
                    pad, edge_calls >>

\* Running, the timer has reached settings.speed: "Update State"
RunningStep ==
    /\ last # "panic"
    /\ game_state = "Running"
    /\ keys' \in {{}, {"START"}}
    /\ ~(timer < Speed)
    /\ graph' = update_state(graph, rules)
    /\ timer' = Tick(TimerRestart)
    /\ last' = "step"
    /\ UNCHANGED << game_state, graph_settings, rules, cursor, cursor_world,
                    cursor_config, sram, ret, fault, presses, snap, bw, bh, bpc,
                    pad, edge_calls >>

\* A ConfigClose that leaves `cursor` on cursor_config
ConfigCloseKeepsCursor ==
    /\ last # "panic"
    /\ game_state = "Config"
    /\ keys' \in {{"B"}, {"START"}, {"B", "START"}}
    /\ graph_settings' = SyncSettings(graph_settings, rules)
    /\ game_state' = "Paused"
    /\ timer' = TimerRestart
    /\ last' = "loop"
    /\ UNCHANGED << graph, rules, cursor, cursor_world, cursor_config, sram,
                    ret, fault, presses, snap, bw, bh, bpc,
                    pad, edge_calls >>

\* Config, Button::B or Button::START just pressed
ConfigClose ==
    /\ last # "panic"
    /\ game_state = "Config"
    /\ keys' \in {{"B"}, {"START"}, {"B", "START"}}
    /\ graph_settings' = SyncSettings(graph_settings, rules)
    /\ game_state' = "Paused"
    /\ cursor' = "world"
    /\ timer' = TimerRestart
    /\ last' = "loop"
    /\ UNCHANGED << graph, rules, cursor_world, cursor_config, sram, ret,
                    fault, presses, snap, bw, bh, bpc,
                    pad, edge_calls >>

\* What Button::A does in Config with the cursor on `node`, storage fault f:
\* the world grid, the rule-editing grid, the rule table, the media, the
\* Result of the save or load, and the branch taken
ConfigPress(gs, node, f) ==
    LET st == gs.nodes[node + 1].state
        r  == gs.nodes[node + 1].y - window_y - rules_offset_y
        c  == gs.nodes[node + 1].x - window_x - rules_offset_x
        sv == save_world(sram, graph, rules, f)
        ld == load_world(sram, graph, rules, f)
    IN  IF st = Menu("New")
        THEN [graph |-> ClearWorld(graph), settings |-> gs,
              rules |-> ClearRules(graph, rules), sram |-> sram,
              ret |-> ret, branch |-> "new"]
        ELSE IF st = Menu("Save")
        THEN [graph |-> graph, settings |-> gs, rules |-> rules,
              sram |-> sv.sram, ret |-> sv.ret, branch |-> "save"]
        ELSE IF st = Menu("Load")
        THEN [graph |-> ld.graph, settings |-> gs, rules |-> ld.rules,
              sram |-> sram, ret |-> ld.ret, branch |-> "load"]
        ELSE [graph |-> graph,
              settings |-> SetState(gs, node, Cell(NotCell(st.val))),
              rules |-> ToggleRule(rules, r, c), sram |-> sram,
              ret |-> ret, branch |-> "rule_toggle"]

\* The storage faults that can happen in the press: none outside Save and Load
PressFaults(gs, node) ==
    IF gs.nodes[node + 1].state \in {Menu("Save"), Menu("Load")}
    THEN Faults(sram, graph)
    ELSE {None}

\* Config, neither B nor START: the iteration reads the directional buttons
\* as x, y and Button::A as a
ConfigInput(x, y, a) ==
    /\ last # "panic"
    /\ game_state = "Config"
    /\ keys' = {}
    /\ LET gs   == SyncSettings(graph_settings, rules)
           node == MoveY(gs, MoveX(gs, ActiveNode, x), y)
       IN  /\ Pressed(x, y, a) => presses < MaxPresses
           /\ cursor_world' = IF cursor = "world" THEN node ELSE cursor_world
           /\ cursor_config' = IF cursor = "world" THEN cursor_config ELSE node
           /\ presses' = IF Pressed(x, y, a) THEN presses + 1 ELSE presses
           /\ IF a
              THEN \E f \in PressFaults(gs, node) :
                       LET p == ConfigPress(gs, node, f)
                       IN  /\ graph' = p.graph
                           /\ graph_settings' = p.settings
                           /\ rules' = p.rules
                           /\ sram' = p.sram
                           /\ ret' = p.ret
                           /\ fault' = f
                           /\ game_state' = game_state
                           \* .expect("REASON") panics on Err
                           /\ last' = IF f = None THEN "loop" ELSE "panic"
                           /\ timer' = IF f = None THEN Tick(timer) ELSE timer
              ELSE /\ graph_settings' = gs
                   /\ last' = "loop"
                   /\ timer' = Tick(timer)
                   /\ UNCHANGED << game_state, graph, rules, sram, ret, fault >>
    /\ UNCHANGED << cursor, snap, bw, bh, bpc, edge_calls >>

\* Config, neither: the directional buttons and Button::A
ConfigEdit ==
    \E x \in Tri, y \in Tri, a \in BOOLEAN : ConfigInput(x, y, a) /\ UNCHANGED pad

Next ==
    \/ PausedStart
    \/ PausedOpenConfig
    \/ PausedEdit
    \/ RunningStop
    \/ RunningWait
    \/ RunningStep
    \/ ConfigClose
    \/ ConfigEdit

Spec == Init /\ [][Next]_vars

-----------------------------------------------------------------------------
(* SpecPress: one iteration of the loop in Paused or Config that reads the  *)
(* directional buttons and Button::A, from a drawn grid, rule table and     *)
(* cursor position, with what it read recorded in `pad`.                    *)

\* The sets of Live cells of the grids a recorded press starts from
EditedSets(n) ==
    LET few == UpTo(0..(n - 1), MaxEdited)
    IN  few \cup {(0..(n - 1)) \ T : T \in few}

PressInit ==
    /\ game_state = "Paused"
    /\ graph = new_world(WorldW, WorldH)
    /\ rules = ConwayRules
    /\ graph_settings = new_graph_settings(ConwayRules)
    /\ cursor = "world"
    /\ cursor_world = 0
    /\ cursor_config = 16
    /\ timer = TimerRestart
    /\ sram = BlankSram(WorldW * WorldH)
    /\ keys = {}
    /\ last = "press_built"
    /\ ret = "none"
    /\ fault = None
    /\ presses = 0
    /\ snap = << >>
    /\ pad = NoPad
    /\ edge_calls = << >>
    /\ bw = WorldW
    /\ bh = WorldH
    /\ bpc = WorldCallCount(WorldW, WorldH)

\* Editing in Paused has left the grid and the world cursor somewhere
PressSeedPaused ==
    /\ last = "press_built"
    /\ \E live \in EditedSets(Len(graph.nodes)) : graph' = WithCells(graph, live)
    /\ rules' \in RuleTables
    /\ cursor_world' \in 0..(Len(graph.nodes) - 1)
    /\ last' = "press_seeded"
    /\ UNCHANGED << game_state, graph_settings, cursor, cursor_config, timer,
                    sram, keys, ret, fault, presses, snap, bw, bh, bpc,
                    pad, edge_calls >>

\* The configuration is open, the rule cursor somewhere; the rule table may
\* come from a load that the display nodes have not been synced with yet
PressSeedConfig ==
    /\ last = "press_built"
    /\ \E live \in EditedSets(Len(graph.nodes)) : graph' = WithCells(graph, live)
    /\ rules' \in RuleTables
    /\ game_state' = "Config"
    /\ cursor' = "config"
    /\ cursor_config' \in 0..(Len(graph_settings.nodes) - 1)
    /\ sram' \in {sram, WrittenSram(Len(graph.nodes))}
    /\ last' = "press_seeded"
    /\ UNCHANGED << graph_settings, cursor_world, timer, keys, ret, fault,
                    presses, snap, bw, bh, bpc, pad, edge_calls >>

PressPaused ==
    /\ last = "press_seeded"
    /\ \E x \in Tri, y \in Tri, a \in BOOLEAN :
           PausedInput(x, y, a) /\ pad' = << x, y, a >>

PressConfig ==
    /\ last = "press_seeded"
    /\ \E x \in Tri, y \in Tri, a \in BOOLEAN :
           ConfigInput(x, y, a) /\ pad' = << x, y, a >>

PressNext == PressSeedPaused \/ PressSeedConfig \/ PressPaused \/ PressConfig

SpecPress == PressInit /\ [][PressNext]_vars

-----------------------------------------------------------------------------
(* SpecRun: the loop of main between Paused and Running, from a grid and a  *)
(* rule table as editing can leave them, with the directional buttons and   *)
(* Button::A left alone.  `loop` has no blocking call but                   *)
(* vblank.wait_for_vblank(), which returns at every frame: as long as an    *)
(* iteration can run, one does.                                             *)

RunInit ==
    /\ game_state = "Paused"
    /\ \E live \in EditedSets(WorldW * WorldH) :
           graph = WithCells(new_world(WorldW, WorldH), live)
    /\ rules \in RuleTables
    /\ graph_settings = new_graph_settings(ConwayRules)
    /\ cursor = "world"
    /\ cursor_world = 0
    /\ cursor_config = 16
    /\ timer \in 0..(TimerWrap - 1)
    /\ sram = BlankSram(WorldW * WorldH)
    /\ keys = {}
    /\ last = "loop"
    /\ ret = "none"
    /\ fault = None
    /\ presses = 0
    /\ snap = << >>
    /\ pad = NoPad
    /\ edge_calls = << >>
    /\ bw = WorldW
    /\ bh = WorldH
    /\ bpc = WorldCallCount(WorldW, WorldH)

RunNext == PausedStart \/ RunningStop \/ RunningWait \/ RunningStep

SpecRun == RunInit /\ [][RunNext]_vars /\ WF_vars(RunNext)

-----------------------------------------------------------------------------
(* Cursor moves on a world of any size: new_world(bw, bh) is built, a cursor
   is put on one of its nodes and move_cursor is called with one button
   after the other *)

Buttons == {"RIGHT", "LEFT", "DOWN", "UP"}

MoveInit ==
    /\ bw \in MinDim..MaxDim
    /\ bh \in MinDim..MaxDim
    /\ bpc = WorldCallCount(bw, bh)
    /\ graph = new_world(bw, bh)
    /\ cursor = "world"
    /\ cursor_world \in 0..(bw * bh - 1)
    /\ snap = << [button |-> None, node |-> cursor_world] >>
    /\ last = "move_built"
    /\ game_state = "Paused"
    /\ rules = ConwayRules
    /\ graph_settings = GraphNew
    /\ cursor_config = 0
    /\ timer = 0
    /\ sram = << >>
    /\ keys = {}
    /\ ret = "none"
    /\ fault = None
    /\ presses = 0
    /\ pad = NoPad
    /\ edge_calls = << >>

\* cursor.move_cursor(&graph, button)
MoveStep ==
    /\ last \in {"move_built", "moved"}
    /\ presses < MaxMoves
    /\ \E button \in Buttons :
          /\ cursor_world' = move_cursor(graph, cursor_world, button)
          /\ snap' = Append(snap, [button |-> Some(button),
                                   node   |-> cursor_world'])
    /\ presses' = presses + 1
    /\ last' = "moved"
    /\ UNCHANGED << game_state, graph, graph_settings, rules, cursor,
                    cursor_config, timer, sram, keys, ret, fault, bw, bh, bpc,
                    pad, edge_calls >>

MoveNext == MoveStep

SpecMove == MoveInit /\ [][MoveNext]_vars

-----------------------------------------------------------------------------
(* Properties *)

\* The eight neighbour offsets of a cell of the torus
Offsets == {d \in {-1, 0, 1} \X {-1, 0, 1} : d # << 0, 0 >>}

\* Node (x, y) of a width x height grid, coordinates taken modulo the sides
NodeAt(width, height, x, y) == (y % height) * width + (x % width)

\* The number of the eight torus neighbours of node i that are Live in g
TorusCount(g, width, height, i) ==
    Cardinality({d \in Offsets :
        g.nodes[NodeAt(width, height, (i % width) + d[1], (i \div width) + d[2]) + 1].state
            = Cell(Live)})

\* Every cell of g2 is what the rule table gives for its state and its
\* neighbour count in g1
IsGenerationOf(g2, g1, rl, width, height) ==
    /\ Len(g2.nodes) = Len(g1.nodes)
    /\ g2.edges = g1.edges
    /\ \A i \in 0..(Len(g1.nodes) - 1) :
           g2.nodes[i + 1].state =
               Cell(CellStateFrom(Rule(rl, AsInt(g1.nodes[i + 1].state.val),
                                       TorusCount(g1, width, height, i))))

SomeLive(g) == \E k \in 1..Len(g.nodes) : g.nodes[k].state = Cell(Live)
SomeDead(g) == \E k \in 1..Len(g.nodes) : g.nodes[k].state = Cell(Dead)

\* C1: a step is a synchronous update: every cell's new state is the rule-table
\* entry (as From<u16> decodes it) for its old state and the number of Live
\* cells among its eight neighbours in the generation before the step.
C1_SynchronousStep ==
    [][last' = "stepped" => IsGenerationOf(graph', graph, rules, bw, bh)]_vars

\* A step under the birth-on-2 table on a 3 x 4 grid that leaves Live and
\* Dead cells
C1_Witness ==
    /\ last = "stepped"
    /\ bw = 3 /\ bh = 4
    /\ rules = SeedsRules
    /\ SomeLive(graph) /\ SomeDead(graph)

\* The outgoing edges of node n, in list order
OutEdges(g, n) == EdgeChain(g, g.nodes[n + 1].first_outgoing_edge)

\* Exactly one edge of `chain` is tagged d, and it leads to `target`
OneTagged(chain, d, target) ==
    LET tagged == {k \in 1..Len(chain) : chain[k].direction = Some(d)}
    IN  /\ Cardinality(tagged) = 1
        /\ \A k \in tagged : chain[k].target = target

EightNeighbours(g, width, height, n) ==
    LET x        == n % width
        y        == n \div width
        chain    == OutEdges(g, n)
        untagged == {k \in 1..Len(chain) : chain[k].direction = None}
    IN  /\ Len(chain) = 8
        /\ OneTagged(chain, "RIGHT", NodeAt(width, height, x + 1, y))
        /\ OneTagged(chain, "LEFT",  NodeAt(width, height, x - 1, y))
        /\ OneTagged(chain, "DOWN",  NodeAt(width, height, x, y + 1))
        /\ OneTagged(chain, "UP",    NodeAt(width, height, x, y - 1))
        /\ Cardinality(untagged) = 4
        /\ {chain[k].target : k \in untagged} =
               {NodeAt(width, height, x + d[1], y + d[2]) :
                    d \in {<< 1, 1 >>, << 1, -1 >>, << -1, 1 >>, << -1, -1 >>}}
        /\ Cardinality({chain[k].target : k \in 1..Len(chain)}) = 8

\* C2: in a grid built by new_world with both sides at least 3, every node has
\* exactly 8 outgoing edges: one tagged RIGHT, LEFT, DOWN and UP each, to the
\* neighbour on that side with wraparound, and four untagged ones to the four
\* diagonal neighbours; the 8 targets are pairwise distinct.
C2_EightEdges ==
    (BuildDone /\ bw >= 3 /\ bh >= 3) =>
        /\ Len(graph.nodes) = bw * bh
        /\ \A n \in 0..(bw * bh - 1) :
               /\ graph.nodes[n + 1].x = n % bw
               /\ graph.nodes[n + 1].y = n \div bw
               /\ EightNeighbours(graph, bw, bh, n)

C2_Witness == BuildDone /\ bw = 3 /\ bh = 4

\* C3: after a save and a load into a second grid and rule table, the grid
\* and the rule table are those that were saved, whatever the media held.
C3_RoundTrip ==
    (last = "loaded" /\ ret = "Ok" /\ snap # << >>) =>
        /\ States(graph) = snap[1].states
        /\ rules = snap[1].rules

\* C4: the media layout is flag, cells, rule row 0, rule row 1: after a save
\* that wrote, cell i is at offset 1+i, rule row 0 entry j at 1+W*H+j and
\* rule row 1 entry k at 1+W*H+9+k.
C4_Layout ==
    (last = "saved" /\ ret = "Ok" /\ SramByte(snap[1].sram, 0) # 0) =>
        LET n == Len(graph.nodes)
        IN  /\ \A i \in 0..(n - 1) :
                   SramByte(sram, 1 + i) = ByteOfState(graph.nodes[i + 1].state)
            /\ \A j \in 0..(RULE_COLS - 1) :
                   SramByte(sram, 1 + n + j) = AsU8(Rule(rules, 0, j))
            /\ \A k \in 0..(RULE_COLS - 1) :
                   SramByte(sram, 1 + n + RULE_COLS + k) = AsU8(Rule(rules, 1, k))

\* C5: a load from media whose byte at offset 0 is zero changes no cell and
\* no rule-table entry, and returns Ok unless the storage itself failed.
C5_LoadEmptyNoop ==
    [][(last' = "loaded" /\ SramByte(sram, 0) = 0) =>
          /\ graph' = graph
          /\ rules' = rules
          /\ (fault' = None => ret' = "Ok")]_vars

\* A load from blank media into a grid with a Live cell and an edited table
C5_Witness ==
    /\ last = "loaded"
    /\ SramByte(sram, 0) = 0
    /\ ret = "Ok" /\ fault = None
    /\ SomeLive(graph)
    /\ rules = ForeignRules

\* C6: after a load, every rule entry whose stored byte is nonzero makes the
\* cell Live in a step that looks it up.
C6_NonzeroIsLive ==
    (last = "loaded" /\ ret = "Ok" /\ SramByte(sram, 0) # 0) =>
        LET n == Len(graph.nodes)
        IN  \A i \in 0..(n - 1), c \in 0..(RULE_COLS - 1) :
                SramByte(sram, n + RULE_COLS * AsInt(graph.nodes[i + 1].state.val) + c) # 0
                    => NextState(graph, rules, i, c) = Cell(Live)

\* C7: a load that returns an error has changed no cell and no rule entry.
C7_AllOrNothing ==
    [][(last' = "loaded" /\ ret' = "Err") =>
          (graph' = graph /\ rules' = rules)]_vars

\* What one iteration of the loop may do to the mode
C8_Transition ==
    /\ game_state' # game_state =>
           \/ game_state = "Paused" /\ game_state' = "Running" /\ "B" \in keys'
           \/ game_state = "Paused" /\ game_state' = "Config" /\ "START" \in keys'
           \/ game_state = "Running" /\ game_state' = "Paused" /\ "B" \in keys'
           \/ game_state = "Config" /\ game_state' = "Paused" /\ keys' # {}
    /\ (game_state = "Paused" /\ "B" \in keys') => game_state' = "Running"
    /\ (game_state = "Running" /\ "B" \in keys') => game_state' = "Paused"

\* C8: the mode starts as Paused (Editing) and changes only from Paused to
\* Running on B, from Paused to Config on START, from Running to Paused on B
\* and from Config to Paused on B or START; an iteration that finds B pressed
\* in Paused or Running makes that one transition whatever else is pressed.
C8_ModeMachine == game_state = "Paused" /\ [][C8_Transition]_vars

\* Running was entered by an iteration that found B and START both pressed
C8_Witness == game_state = "Running" /\ keys = {"B", "START"} /\ timer = TimerRestart

\* What opening, idling in and closing the configuration do in one iteration
C9_Step ==
    /\ (game_state = "Paused" /\ keys' = {"START"}) =>
           (game_state' = "Config" /\ graph' = graph)
    /\ (game_state = "Config" /\ keys' = {} /\ presses' = presses) =>
           (game_state' = "Config" /\ graph' = graph)
    /\ (game_state = "Config" /\ keys' # {}) =>
           (game_state' = "Paused" /\ cursor' = "world" /\ graph' = graph)

\* C9: opening the configuration, then iterations without input, then closing
\* it leave every world cell as it was, and closing ends in Paused with
\* `cursor` on the world cursor.
C9_OpenCloseConfig == [][C9_Step]_vars

\* Paused again after the configuration was opened on a world with a Live
\* cell and closed with START, the rule cursor still where opening put it
C9_Witness ==
    /\ game_state = "Paused"
    /\ keys = {"START"}
    /\ cursor = "world"
    /\ cursor_config = node_new
    /\ SomeLive(graph)

\* What one iteration in Running may change
C10_Step ==
    game_state = "Running" =>
        /\ cursor' = cursor
        /\ cursor_world' = cursor_world
        /\ cursor_config' = cursor_config
        /\ \/ graph' = graph
           \/ last' = "step" /\ IsGenerationOf(graph', graph, rules, WorldW, WorldH)

\* C10: an iteration in Running moves no cursor and changes the world grid
\* only by one complete simulation step.
C10_NoEditWhileRunning == [][C10_Step]_vars

\* A step has run in Running and the world still has a Live cell
C10_Witness == game_state = "Running" /\ last = "step" /\ SomeLive(graph)

\* Button::A alone, read as just pressed
OnlyA == << "Zero", "Zero", TRUE >>

\* Live for Dead and Dead for Live
Flipped(st) == IF st = Cell(Live) THEN Cell(Dead) ELSE Cell(Live)

\* Graph g2 is g1 with the state of node `node` flipped and nothing else changed
FlippedAt(g2, g1, node) ==
    /\ g2.edges = g1.edges
    /\ Len(g2.nodes) = Len(g1.nodes)
    /\ \A i \in 0..(Len(g1.nodes) - 1) :
           g2.nodes[i + 1] =
               IF i = node
               THEN [g1.nodes[i + 1] EXCEPT !.state = Flipped(g1.nodes[i + 1].state)]
               ELSE g1.nodes[i + 1]

\* What an iteration in Paused that reads Button::A alone does
C11_Step ==
    (last = "press_seeded" /\ game_state = "Paused" /\ pad' = OnlyA) =>
        /\ FlippedAt(graph', graph, cursor_world)
        /\ rules' = rules
        /\ game_state' = game_state
        /\ cursor' = cursor
        /\ cursor_world' = cursor_world
        /\ cursor_config' = cursor_config
        /\ ToggleNode(graph', cursor_world') = graph

\* C11: in Paused (Editing), Button::A alone flips exactly the world cell at
\* the cursor's node and leaves the other cells, the rule table, the mode and
\* the cursors as they were; a second toggle at that node restores the grid.
C11_ToggleAtCursor == [][C11_Step]_vars

\* Button::A alone has made a cell Live in a grid that also has Dead cells,
\* with the cursor away from node 0
C11_Witness ==
    /\ game_state = "Paused"
    /\ last = "loop"
    /\ pad = OnlyA
    /\ cursor_world # 0
    /\ graph.nodes[cursor_world + 1].state = Cell(Live)
    /\ SomeDead(graph)

\* Conway's table: a Dead cell becomes Live with 3 Live neighbours, a Live
\* cell stays Live with 2 or 3
IsConwayTable(rl) ==
    /\ Len(rl) = 2
    /\ \A c \in 0..(RULE_COLS - 1) :
           /\ Rule(rl, 0, c) = (IF c = 3 THEN 1 ELSE 0)
           /\ Rule(rl, 1, c) = (IF c \in {2, 3} THEN 1 ELSE 0)

\* What an iteration in Config that handles Button::A on the New entry does
C12_Step ==
    (last = "press_seeded" /\ game_state = "Config" /\ pad'[3]
        /\ cursor_config' = node_new) =>
        /\ ~SomeLive(graph')
        /\ Len(graph'.nodes) = Len(graph.nodes)
        /\ graph'.edges = graph.edges
        /\ IsConwayTable(rules')

\* C12: in Config, Button::A with the cursor on New leaves every world cell
\* Dead and the rule table equal to Conway's, whatever they were before.
C12_NewResets == [][C12_Step]_vars

\* Button::A alone was handled on New
C12_Witness ==
    /\ game_state = "Config"
    /\ last = "loop"
    /\ pad = OnlyA
    /\ cursor_config = node_new
    /\ ~SomeLive(graph)
    /\ rules = ConwayRules

\* What an iteration in Config that handles Button::A on a rule cell does,
\* were the entry and its display node flipped together
C13_Step ==
    (last = "press_seeded" /\ game_state = "Config" /\ pad'[3]
        /\ cursor_config' < node_new) =>
        LET r == cursor_config' \div RULE_COLS
            c == cursor_config' % RULE_COLS
        IN  /\ Cell(CellStateFrom(Rule(rules', r, c))) =
                   Flipped(Cell(CellStateFrom(Rule(rules, r, c))))
            /\ graph_settings'.nodes[cursor_config' + 1].state =
                   Cell(CellStateFrom(Rule(rules', r, c)))
            /\ \A r2 \in 0..1, c2 \in 0..(RULE_COLS - 1) :
                   << r2, c2 >> # << r, c >> => Rule(rules', r2, c2) = Rule(rules, r2, c2)
            /\ graph' = graph

\* C13: in Config, Button::A with the cursor on a rule cell flips the rule
\* entry and its display node, so that the display node shows the state the
\* entry decodes to, for every value the entry can hold; the other entries
\* and the world grid are unchanged.
C13_RuleToggle == [][C13_Step]_vars

\* The button a single direction read by the iteration stands for, if any
ButtonOf(p) ==
    IF p = << "Negative", "Zero", FALSE >> THEN Some("LEFT")
    ELSE IF p = << "Positive", "Zero", FALSE >> THEN Some("RIGHT")
    ELSE IF p = << "Zero", "Negative", FALSE >> THEN Some("UP")
    ELSE IF p = << "Zero", "Positive", FALSE >> THEN Some("DOWN")
    ELSE None

\* Where the first edge of node's list tagged `button` leads, the node
\* itself when no edge of the list carries the tag
FirstTagged(g, node, button) ==
    LET chain  == OutEdges(g, node)
        tagged == {k \in 1..Len(chain) : chain[k].direction = Some(button)}
    IN  IF tagged = {} THEN node
        ELSE chain[CHOOSE k \in tagged : \A m \in tagged : k <= m].target

\* Same nodes at the same places with the same edge lists
SameShape(g2, g1) ==
    /\ g2.edges = g1.edges
    /\ Len(g2.nodes) = Len(g1.nodes)
    /\ \A k \in 1..Len(g1.nodes) :
           /\ g2.nodes[k].x = g1.nodes[k].x
           /\ g2.nodes[k].y = g1.nodes[k].y
           /\ g2.nodes[k].first_outgoing_edge = g1.nodes[k].first_outgoing_edge

\* What an iteration that reads one directional button and nothing else does
C14_Step ==
    (last = "press_seeded" /\ ButtonOf(pad') # None) =>
        LET b == ButtonOf(pad')[1]
        IN  /\ graph' = graph
            /\ SameShape(graph_settings', graph_settings)
            /\ cursor' = cursor
            /\ game_state = "Paused" =>
                   /\ cursor_world' = FirstTagged(graph, cursor_world, b)
                   /\ cursor_config' = cursor_config
            /\ game_state = "Config" =>
                   /\ cursor_config' = FirstTagged(graph_settings, cursor_config, b)
                   /\ cursor_world' = cursor_world
                   /\ (b = "UP" /\ cursor_config < RULE_COLS) =>
                          cursor_config' = cursor_config
                   /\ (b \in {"LEFT", "RIGHT"} /\ cursor_config >= node_new) =>
                          cursor_config' = cursor_config
                   /\ (b = "DOWN" /\ cursor_config = node_load) =>
                          cursor_config' = cursor_config

\* C14: move_cursor puts the cursor on the target of the first edge of its
\* node's list tagged with the direction, leaves it where it is when no edge
\* of the list carries the tag (UP on the top rule row, LEFT or RIGHT on a
\* menu entry, DOWN on Load), and never modifies the graph.
C14_MoveCursor == [][C14_Step]_vars

\* LEFT alone was read with the rule cursor on Save, which no LEFT edge
\* leads to: the cursor stayed
C14_Witness ==
    /\ game_state = "Config"
    /\ last = "loop"
    /\ pad = << "Negative", "Zero", FALSE >>
    /\ cursor_config = node_save

\* The targets of the calls of `log` made with source n, latest call first
RECURSIVE TargetsLatestFirst(_, _)
TargetsLatestFirst(log, n) ==
    IF log = << >> THEN << >>
    ELSE LET call == log[Len(log)]
             rest == TargetsLatestFirst(SubSeq(log, 1, Len(log) - 1), n)
         IN  IF call[1] = n THEN << call[2] >> \o rest ELSE rest

\* C15: after any sequence of add_node and add_edge calls, successors(n)
\* yields the targets of the edges added with source n, one per edge, the
\* most recently added first, and then ends.
C15_SuccessorsOrder ==
    last = "graph" =>
        \A n \in 0..(Len(graph.nodes) - 1) :
            successors(graph, n) = TargetsLatestFirst(edge_calls, n)

\* Node 0 was given an edge to node 0, then one to node 1, with an edge of
\* node 1 added at some point
C15_Witness ==
    /\ last = "graph"
    /\ Len(graph.nodes) = 2
    /\ successors(graph, 0) = << 1, 0 >>
    /\ Len(successors(graph, 1)) = 1

\* C17: in every graph reached through add_node and add_edge, every edge's
\* target is a node, every first_outgoing_edge is an edge, and every list
\* followed through next_outgoing_edge ends without visiting an edge twice
\* (each link leads to an edge added earlier).
C17_WellFormed ==
    last = "graph" =>
        /\ \A e \in 1..Len(graph.edges) :
               /\ graph.edges[e].target \in 0..(Len(graph.nodes) - 1)
               /\ graph.edges[e].next_outgoing_edge # None =>
                      graph.edges[e].next_outgoing_edge[1] \in 0..(e - 2)
        /\ \A k \in 1..Len(graph.nodes) :
               graph.nodes[k].first_outgoing_edge # None =>
                   graph.nodes[k].first_outgoing_edge[1] \in 0..(Len(graph.edges) - 1)

\* Both nodes have edges, node 0 a list of two
C17_Witness ==
    /\ last = "graph"
    /\ Len(graph.edges) = MaxEdges
    /\ Len(OutEdges(graph, 0)) = 2
    /\ Len(OutEdges(graph, 1)) = 1

\* The Live cells of a grid
LiveCells(g) == {i \in 0..(Len(g.nodes) - 1) : g.nodes[i + 1].state = Cell(Live)}

\* C16: on a 3 x 3 torus with exactly one Live cell, a step under Conway's
\* table finds exactly 1 Live neighbour for each of the other eight cells
\* and leaves the whole grid Dead.
C16_LoneCellDies ==
    [][(last' = "stepped" /\ bw = 3 /\ bh = 3 /\ IsConwayTable(rules)
          /\ Cardinality(LiveCells(graph)) = 1) =>
          /\ \A i \in 0..(Len(graph.nodes) - 1) :
                 living_neighbors_count_of(graph, i) =
                     (IF i \in LiveCells(graph) THEN 0 ELSE 1)
          /\ LiveCells(graph') = {}
          /\ Len(graph'.nodes) = 9]_vars

\* The 3 x 3 grid is all Dead after a step under Conway's table
C16_Witness ==
    /\ last = "stepped"
    /\ bw = 3 /\ bh = 3
    /\ rules = ConwayRules
    /\ LiveCells(graph) = {}

\* The successors of node n of g that are Live cells, as positions of its list
LiveSuccessors(g, n) ==
    LET succ == successors(g, n)
    IN  {k \in 1..Len(succ) : g.nodes[succ[k] + 1].state = Cell(Live)}

\* C18: on every grid built by new_world with sides of at least 2 and every
\* assignment of cell states, living_neighbors_count_of is in 0..8 for every
\* node, a valid column of a 9-entry rule row; in a graph with Menu nodes the
\* count is the number of Live cell successors, a Menu successor adding 0.
C18_CountInRange ==
    last = "step_init" =>
        /\ bw >= 2 /\ bh >= 2
        /\ \A i \in 0..(Len(graph.nodes) - 1) :
               /\ living_neighbors_count_of(graph, i) \in 0..8
               /\ living_neighbors_count_of(graph, i) + 1 \in DOMAIN rules[1]
               /\ living_neighbors_count_of(graph, i) + 1 \in DOMAIN rules[2]
        /\ \A n \in 0..(Len(graph_settings.nodes) - 1) :
               living_neighbors_count_of(graph_settings, n) =
                   Cardinality(LiveSuccessors(graph_settings, n))

\* A 2 x 2 grid with every cell Live, where each node counts 8, beside a
\* rule-editing graph whose bottom row has the New entry as a successor
C18_Witness ==
    /\ last = "step_init"
    /\ bw = 2 /\ bh = 2
    /\ \A i \in 0..3 : living_neighbors_count_of(graph, i) = 8
    /\ node_new \in {successors(graph_settings, 9)[k] :
                         k \in 1..Len(successors(graph_settings, 9))}

\* What decides whether an iteration performs a simulation step, and what
\* the step does
C19_Step ==
    /\ last' = "step" =>
           /\ game_state = "Running"
           /\ timer >= Speed
           /\ IsGenerationOf(graph', graph, rules, WorldW, WorldH)
           /\ timer' = Tick(TimerRestart)
    /\ (game_state = "Running" /\ "B" \notin keys' /\ timer >= Speed) =>
           last' = "step"
    /\ (game_state = "Running" /\ timer < Speed) =>
           (last' # "step" /\ graph' = graph)
    /\ game_state \in {"Paused", "Config"} => last' # "step"

\* C19 (as amended): a simulation step is performed only in an iteration in
\* Running that finds the timer at or above settings.speed; such an
\* iteration performs exactly one step and restarts the timer, and no step
\* is performed in Paused or Config.
C19_StepWhenDue == [][C19_Step]_vars

\* C19 (as stated): a step is performed only when the timer has exceeded
\* the threshold.
C19_StepOnlyAbove ==
    [][last' = "step" => (game_state = "Running" /\ timer > Speed)]_vars

\* A step has run in an iteration that found START pressed, and the timer
\* has been restarted
C19_Witness ==
    /\ game_state = "Running"
    /\ last = "step"
    /\ keys = {"START"}
    /\ timer = Tick(TimerRestart)

\* C20: if from some point on the mode is Running for good (no B is read)
\* and the timer keeps advancing, simulation steps are performed again and
\* again.
C20_StepsRecur == <>[](game_state = "Running") => []<>(last = "step")

\* A step has run in Running on a grid that still has Live and Dead cells
C20_Witness ==
    /\ game_state = "Running"
    /\ last = "step"
    /\ keys = {}
    /\ pad = NoPad /\ presses = 0
    /\ SomeLive(graph) /\ SomeDead(graph)

\* The nodes one move_cursor call can put a cursor on from node n of g: n
\* itself or the target of a tagged edge of n's list
OneMove(g, n) ==
    LET es == OutEdges(g, n)
    IN  {n} \cup {es[k].target : k \in {m \in 1..Len(es) : es[m].direction # None}}

\* The nodes an iteration (one horizontal and one vertical move) can reach
TwoMoves(g, n) == UNION {OneMove(g, m) : m \in OneMove(g, n)}

\* `cursor` refers to the cursor of the mode, and both cursors are on nodes
\* of their graphs
C21_Bound ==
    /\ cursor = (IF game_state = "Config" THEN "config" ELSE "world")
    /\ cursor_world \in 0..(Len(graph.nodes) - 1)
    /\ cursor_config \in 0..(Len(graph_settings.nodes) - 1)

\* An iteration that stays in its mode moves only that mode's cursor, along
\* the edges of that mode's graph
C21_Moves ==
    /\ (game_state = "Paused" /\ game_state' = "Paused") =>
           /\ cursor_config' = cursor_config
           /\ (cursor_world' # cursor_world =>
                  cursor_world' \in TwoMoves(graph, cursor_world))
    /\ (game_state = "Config" /\ game_state' = "Config") =>
           /\ cursor_world' = cursor_world
           /\ (cursor_config' # cursor_config =>
                  cursor_config' \in TwoMoves(graph_settings, cursor_config))
    /\ game_state = "Running" =>
           (cursor_world' = cursor_world /\ cursor_config' = cursor_config)

\* C21: in every reachable state `cursor` is the rule cursor exactly when the
\* mode is Config and the world cursor otherwise, the world cursor is on a
\* node of the world grid and the rule cursor on a node of the rule-editing
\* graph, and every move is made on the graph of the cursor it moves.
C21_CursorBinding == [] C21_Bound /\ [][C21_Moves]_vars

\* The configuration is open with the rule cursor moved up from New to the
\* bottom rule row, after the world cursor was moved off node 0
C21_Witness ==
    /\ game_state = "Config"
    /\ cursor = "config"
    /\ cursor_config = RULE_COLS
    /\ cursor_world # 0

\* The button that undoes a button
Opposite(button) ==
    CASE button = "RIGHT" -> "LEFT"
      [] button = "LEFT"  -> "RIGHT"
      [] button = "DOWN"  -> "UP"
      [] button = "UP"    -> "DOWN"

\* The last k moves of the trail were all made with `button`
LastMovesAre(k, button) ==
    /\ Len(snap) > k
    /\ \A m \in (Len(snap) - k + 1)..Len(snap) : snap[m].button = Some(button)

\* The node the cursor was on before its last k moves
NodeBefore(k) == snap[Len(snap) - k].node

\* C22: on the world grid a move followed by the opposite move (RIGHT then
\* LEFT, LEFT then RIGHT, DOWN then UP, UP then DOWN) puts the cursor back
\* on the node it started from, and so do W RIGHT moves in a row and H DOWN
\* moves in a row, W and H being the sides of the grid.
C22_OppositeMoves ==
    last = "moved" =>
        /\ cursor_world = snap[Len(snap)].node
        /\ \A button \in Buttons :
              ( /\ Len(snap) > 2
                /\ snap[Len(snap) - 1].button = Some(button)
                /\ snap[Len(snap)].button = Some(Opposite(button)) )
              => cursor_world = NodeBefore(2)
        /\ LastMovesAre(bw, "RIGHT") => cursor_world = NodeBefore(bw)
        /\ LastMovesAre(bh, "DOWN") => cursor_world = NodeBefore(bh)

\* On a grid three wide and two high, three RIGHT moves in a row went
\* through two other nodes and ended on the start node
C22_Witness ==
    /\ last = "moved"
    /\ bw = 3 /\ bh = 2
    /\ LastMovesAre(3, "RIGHT")
    /\ Len(snap) = 4
    /\ snap[2].node # snap[1].node
    /\ snap[3].node \notin {snap[1].node, snap[2].node}
    /\ cursor_world = snap[1].node

\* C23: save_world on storage whose byte at offset 0 is zero writes nothing:
\* every storage byte is as before and the call returns Ok unless the storage
\* itself failed; a load that follows such a save leaves every cell and every
\* rule-table entry as they were when save_world was called.
C23_SaveBlankNoop ==
    [][ /\ (last' = "saved" /\ SramByte(sram, 0) = 0) =>
              /\ sram' = sram
              /\ (fault' = None => ret' = "Ok")
        /\ (last = "saved" /\ last' = "loaded" /\ SramByte(snap[1].sram, 0) = 0) =>
              /\ States(graph') = snap[1].states
              /\ graph' = graph
              /\ rules' = snap[1].rules ]_vars

\* A save of a grid with Live and Dead cells and an edited table on storage
\* whose first byte is zero, then a load: storage, cells and table are those
\* of before the save
C23_Witness ==
    /\ last = "loaded"
    /\ snap # << >>
    /\ SramByte(snap[1].sram, 0) = 0
    /\ sram = snap[1].sram
    /\ ret = "Ok" /\ fault = None
    /\ SomeLive(graph) /\ SomeDead(graph)
    /\ States(graph) = snap[1].states
    /\ rules = ForeignRules /\ snap[1].rules = ForeignRules

=============================================================================
